---- MODULE Spec2Model ----
(***************************************************************************)
(* A model of chromatic's Rainbow container (rainbows/rainbow.py), its     *)
(* actions (actions/trim.py, actions/inject_noise.py) and the writer       *)
(* dispatch (writers/__init__.py, writers/rainbownpy.py).                  *)
(*                                                                         *)
(* Numbers are exact rationals <<n, d>> with d > 0, in lowest terms; the   *)
(* IEEE not-a-number is <<0, 0>>.  An uncertainty sigma is stored as its   *)
(* square sigma^2 (the map is one-to-one on sigma >= 0), so that the       *)
(* resampler's (sum of 1/sigma^2)^(-1/2) stays rational.                   *)
(* Python's None is the empty tuple <<>>, a present value v is <<v>>.      *)
(***************************************************************************)
EXTENDS Integers, Sequences, FiniteSets, TLC

\* ------------------------------------------------------------------ bounds
MaxWave == 2
MaxTime == 3
MaxOps == 2
MaxNaN == 3
MaxPath == 3

\* ----------------------------------------------------------------- numbers
NaN == <<0, 0>>

isnan(a) == a[2] = 0

Abs(n) == IF n < 0 THEN -n ELSE n

RECURSIVE GCD(_, _)
GCD(a, b) == IF b = 0 THEN a ELSE GCD(b, a % b)

Norm(n, d) ==
    IF d = 0 THEN NaN
    ELSE LET g == GCD(Abs(n), Abs(d))
             s == IF d < 0 THEN -1 ELSE 1
         IN  <<(s * n) \div g, (s * d) \div g>>

I(n) == <<n, 1>>

RAdd(a, b) == IF isnan(a) \/ isnan(b) THEN NaN
              ELSE LET g == GCD(a[2], b[2])
                   IN  Norm(a[1] * (b[2] \div g) + b[1] * (a[2] \div g),
                            (a[2] \div g) * b[2])

RNeg(a) == <<-a[1], a[2]>>

RSub(a, b) == RAdd(a, RNeg(b))

RMul(a, b) == IF isnan(a) \/ isnan(b) THEN NaN
              ELSE LET g == GCD(Abs(a[1]), b[2])
                       h == GCD(Abs(b[1]), a[2])
                   IN  Norm((a[1] \div g) * (b[1] \div h),
                            (a[2] \div h) * (b[2] \div g))

\* x / 0 is nan for x = 0 (numpy warns and carries on); the model never
\* divides a non-zero number by zero.
RDiv(a, b) == IF isnan(a) \/ isnan(b) \/ b[1] = 0 THEN NaN
              ELSE RMul(a, IF b[1] < 0 THEN <<-b[2], -b[1]>> ELSE <<b[2], b[1]>>)

\* every comparison with nan is False
RLess(a, b) == ~isnan(a) /\ ~isnan(b) /\ a[1] * b[2] < b[1] * a[2]

RLeq(a, b) == ~isnan(a) /\ ~isnan(b) /\ a[1] * b[2] <= b[1] * a[2]

RDist(a, b) == LET d == RSub(a, b) IN <<Abs(d[1]), d[2]>>

RECURSIVE RSum(_)
RSum(s) == IF s = <<>> THEN I(0) ELSE RAdd(Head(s), RSum(Tail(s)))

\* ------------------------------------------------------------------ Python
None == <<>>

Some(v) == <<v>>

\* a dict: its keys in insertion order, and the value of each key
EmptyDict == [keys |-> <<>>, val |-> <<>>]

Range(s) == {s[i] : i \in DOMAIN s}

Has(d, k) == k \in Range(d.keys)

Put(d, k, v) ==
    [keys |-> IF Has(d, k) THEN d.keys ELSE Append(d.keys, k),
     val  |-> [x \in Range(d.keys) \cup {k} |-> IF x = k THEN v ELSE d.val[x]]]

\* a 2D array: its shape and its rows
Array2(nr, nc, rows) == [nr |-> nr, nc |-> nc, d |-> rows]

\* a[mask] for a 1D array and a boolean mask of its length
RECURSIVE Select(_, _)
Select(a, mask) ==
    IF a = <<>> THEN <<>>
    ELSE (IF Head(mask) THEN <<Head(a)>> ELSE <<>>) \o Select(Tail(a), Tail(mask))

Count(mask) == Cardinality({i \in DOMAIN mask : mask[i]})

\* a[:, mask] and a[mask, :] for a 2D array
SelectCols(a, mask) ==
    Array2(a.nr, Count(mask), [w \in 1..a.nr |-> Select(a.d[w], mask)])

SelectRows(a, mask) == Array2(Count(mask), a.nc, Select(a.d, mask))

AllTrue(n) == [i \in 1..n |-> TRUE]

\* ----------------------------------------------------------------- Rainbow
VARIABLES
    rb,        \* the Rainbow the last call was made on, as it was before the call
    out,       \* the Rainbow in hand: the constructed one, then each call's result
    op,        \* the last call
    err,       \* the exception class the last call raised, "" for none
    shares,    \* what of `out` is the very object of `rb` (object, mapping, array)
    calls,     \* the resampler calls the last call made, and whether it drew
    nops,      \* the number of calls made so far
    filepath,  \* guess_writer's arguments and what it returned
    format,
    writer

vars == <<rb, out, op, err, shares, calls, nops, filepath, format, writer>>

writervars == <<filepath, format, writer>>

\* Rainbow.__init__: wscale is not among the attributes it sets
Rainbow(wavelength_, time_, flux_, uncertainty_) ==
    [wavelike |-> Put(EmptyDict, "wavelength", wavelength_),
     timelike |-> Put(EmptyDict, "time", time_),
     fluxlike |-> Put(Put(EmptyDict, "flux", flux_), "uncertainty", uncertainty_),
     wscale   |-> None]

wavelength(r) == r.wavelike.val["wavelength"]

time(r) == r.timelike.val["time"]

flux(r) == r.fluxlike.val["flux"]

uncertainty(r) == r.fluxlike.val["uncertainty"]

nwave(r) == IF wavelength(r) = None THEN 0 ELSE Len(wavelength(r)[1])

ntime(r) == IF time(r) = None THEN 0 ELSE Len(time(r)[1])

\* what a call returns: a Rainbow, or the exception it raised
NoCalls == [bintogrid |-> 0, weighted |-> {}, drawn |-> FALSE]

Return(new, sh, c) == [err |-> "", new |-> new, shares |-> sh, calls |-> c]

Raise(e) == [err |-> e, new |-> None, shares |-> {}, calls |-> NoCalls]

\* every object reachable from a Rainbow: itself, its three mappings (named with
\* no key), and the arrays they hold
Objects(r) ==
    {<<"self", "">>, <<"wavelike", "">>, <<"timelike", "">>, <<"fluxlike", "">>}
    \cup {<<"wavelike", k>> : k \in {k \in Range(r.wavelike.keys) : r.wavelike.val[k] # None}}
    \cup {<<"timelike", k>> : k \in {k \in Range(r.timelike.keys) : r.timelike.val[k] # None}}
    \cup {<<"fluxlike", k>> : k \in {k \in Range(r.fluxlike.keys) : r.fluxlike.val[k] # None}}

\* Rainbow.__getitem__, self[i_wavelength, i_time] with two boolean masks: a new
\* Rainbow whose arrays are the selected entries of self's
getitem(self, i_wavelength, i_time) ==
    [wavelike |-> [keys |-> self.wavelike.keys,
                   val  |-> [k \in Range(self.wavelike.keys) |->
                               LET a == self.wavelike.val[k]
                               IN  IF a = None THEN None
                                   ELSE Some(Select(a[1], i_wavelength))]],
     timelike |-> [keys |-> self.timelike.keys,
                   val  |-> [k \in Range(self.timelike.keys) |->
                               LET a == self.timelike.val[k]
                               IN  IF a = None THEN None
                                   ELSE Some(Select(a[1], i_time))]],
     fluxlike |-> [keys |-> self.fluxlike.keys,
                   val  |-> [k \in Range(self.fluxlike.keys) |->
                               LET a == self.fluxlike.val[k]
                               IN  IF a = None THEN None
                                   ELSE Some(SelectCols(SelectRows(a[1], i_wavelength),
                                                        i_time))]],
     wscale   |-> self.wscale]

\* ------------------------------------------------------------ resampling
\* The resampler and its grids.  x, y are 1D arrays of one length, unc is None
\* or the 1D array of the samples' sigma^2; newx is None or the target grid's
\* centres; dx, R_ are None or the step and the resolution to build one from.
Finite(x) == {i \in DOMAIN x : ~isnan(x[i])}

nanmin(x) == CHOOSE a \in {x[i] : i \in Finite(x)} :
                \A i \in Finite(x) : RLeq(a, x[i])

nanmax(x) == CHOOSE a \in {x[i] : i \in Finite(x)} :
                \A i \in Finite(x) : RLeq(x[i], a)

\* the left edges lo, lo + dx, ... not beyond hi
RECURSIVE LinearEdges(_, _, _)
LinearEdges(lo, hi, dx) ==
    IF RLess(hi, lo) THEN <<>>
    ELSE <<lo>> \o LinearEdges(RAdd(lo, dx), hi, dx)

\* the left edges lo, lo (1 + 1/R), lo (1 + 1/R)^2, ... not beyond hi
RECURSIVE LogEdges(_, _, _)
LogEdges(lo, hi, R_) ==
    IF RLess(hi, lo) THEN <<>>
    ELSE <<lo>> \o LogEdges(RMul(lo, RAdd(I(1), RDiv(I(1), R_))), hi, R_)

\* precedence: the explicit grid, then the linear step, then the resolution
GridEdges(x, newx, dx, R_) ==
    IF newx # None \/ Finite(x) = {} THEN <<>>
    ELSE IF dx # None THEN LinearEdges(nanmin(x), nanmax(x), dx[1])
    ELSE LogEdges(nanmin(x), nanmax(x), R_[1])

GridCentres(x, newx, dx, R_) ==
    LET e == GridEdges(x, newx, dx, R_)
    IN  IF newx # None THEN newx[1]
        ELSE IF dx # None
             THEN [j \in DOMAIN e |-> RAdd(e[j], RDiv(dx[1], I(2)))]
             ELSE [j \in DOMAIN e |-> RMul(e[j], RAdd(I(1), RDiv(I(1), RMul(I(2), R_[1]))))]

\* the bin a sample at xv falls in, 0 for none: the enclosing bin of a built
\* grid with left edges e, the nearest centre of an explicit one (the lower of
\* two equally near)
BinOf(xv, newx, e) ==
    IF isnan(xv) THEN 0
    ELSE IF newx # None
         THEN LET g == newx[1]
              IN  IF g = <<>> THEN 0
                  ELSE CHOOSE j \in DOMAIN g : \A i \in DOMAIN g :
                          \/ RLess(RDist(xv, g[j]), RDist(xv, g[i]))
                          \/ RDist(xv, g[j]) = RDist(xv, g[i]) /\ j <= i
         ELSE Cardinality({j \in DOMAIN e : RLeq(e[j], xv)})

\* the bin of every sample of x on the grid
Bins(x, newx, dx, R_) ==
    LET e == GridEdges(x, newx, dx, R_)
    IN  [i \in DOMAIN x |-> BinOf(x[i], newx, e)]

Indices(n) == [i \in 1..n |-> i]

\* the weight of sample i: 1/sigma^2 under inverse-variance weighting when the
\* uncertainties are given, 1 otherwise
Weight(unc, weighting, i) ==
    IF unc # None /\ weighting = "inversevariance"
    THEN RDiv(I(1), unc[1][i])
    ELSE I(1)

\* the resampler on a grid (its centres bt and the bin of every sample) that
\* the caller has built
Resample(bt, bin, y, unc, weighting) ==
    LET wt == [i \in DOMAIN bin |-> Weight(unc, weighting, i)]
        members == [j \in DOMAIN bt |->
                      SelectSeq(Indices(Len(bin)), LAMBDA i : bin[i] = j)]
        sumw == [j \in DOMAIN bt |->
                   RSum([n \in DOMAIN members[j] |-> wt[members[j][n]]])]
        sumwy == [j \in DOMAIN bt |->
                    RSum([n \in DOMAIN members[j] |->
                            RMul(wt[members[j][n]], y[members[j][n]])])]
    IN  [bt |-> bt,
         bv |-> [j \in DOMAIN bt |->
                   IF members[j] = <<>> THEN NaN ELSE RDiv(sumwy[j], sumw[j])],
         bu |-> IF unc = None THEN None
                ELSE Some([j \in DOMAIN bt |->
                   IF members[j] = <<>> THEN NaN ELSE RDiv(I(1), sumw[j])])]

bintogrid(x, y, unc, newx, dx, R_, weighting) ==
    Resample(GridCentres(x, newx, dx, R_), Bins(x, newx, dx, R_), y, unc, weighting)

\* ------------------------------------------------------ rainbows/rainbow.py
Col(a, t) == [w \in 1..a.nr |-> a.d[w][t]]

Arrays(d, name) == {<<name, k>> : k \in {k \in Range(d.keys) : d.val[k] # None}}

\* variant: a copy of the receiver is returned in its place
ReturnCopy(self) == Return(self, {}, NoCalls)

\* `return self`: the result is the receiver itself
ReturnSelf(self) == Return(self, Objects(self), NoCalls)

\* variant: the uncertainties weight the flux alone
unc_for_flux_only(self, k, w) ==
    IF uncertainty(self) = None \/ k \notin {"flux", "uncertainty"} THEN None
    ELSE Some(uncertainty(self)[1].d[w])

\* the unc bin_in_time hands to the resampler with row w of fluxlike[k]
unc_for(self, k, w) ==
    IF uncertainty(self) = None THEN None ELSE Some(uncertainty(self)[1].d[w])

\* variant: the shape the wrong way round
new_shape_transposed(new_nwave, new_ntime) == <<new_ntime, new_nwave>>

\* new_shape = (new.nwave, new.ntime)
new_shape(new_nwave, new_ntime) == <<new_nwave, new_ntime>>

bin_in_time(self, dt, time_) ==
    IF time_ = None /\ dt = None THEN ReturnSelf(self)
    ELSE IF self.wscale = None THEN Raise("AttributeError")
    ELSE IF self.timelike.keys = <<>> THEN Raise("NameError")
    ELSE
    LET newx == time_
        dx == IF time_ # None THEN None ELSE dt
        x == time(self)[1]
        tk == self.timelike.keys
        k_last == tk[Len(tk)]
        \* bintogrid(x=self.time, y=y, unc=unc, **binkw): one grid for every call
        bt == GridCentres(x, newx, dx, None)
        bin_of_x == Bins(x, newx, dx, None)
        binned(y, unc) == Resample(bt, bin_of_x, y, unc, "inversevariance")
        \* new.timelike[k] = bv for every k, then new.timelike[k] = bt for the
        \* k the loop ended on
        new_timelike ==
            [keys |-> tk,
             val  |-> [k \in Range(tk) |->
                         IF k = k_last THEN Some(binned(x, None).bt)
                         ELSE Some(binned(self.timelike.val[k][1], None).bv)]]
        new_nwave == nwave(self)
        new_ntime == Len(new_timelike.val["time"][1])
        fk == IF new_nwave = 0 THEN <<>> ELSE self.fluxlike.keys
        shape == new_shape(new_nwave, new_ntime)
        row(k, w) == LET b == binned(self.fluxlike.val[k][1].d[w], unc_for(self, k, w))
                     IN  IF k = "uncertainty" THEN b.bu[1] ELSE b.bv
    IN  IF fk # <<>> /\ ~Has(self.fluxlike, "uncertainty") THEN Raise("KeyError")
        ELSE IF \E k \in Range(fk) : self.fluxlike.val[k] = None THEN Raise("TypeError")
        ELSE Return(
               [wavelike |-> self.wavelike,
                timelike |-> new_timelike,
                fluxlike |-> [keys |-> fk,
                              val  |-> [k \in Range(fk) |->
                                 Some(Array2(shape[1], shape[2],
                                             [w \in 1..new_nwave |-> row(k, w)]))]],
                wscale   |-> self.wscale],
               Arrays(self.wavelike, "wavelike"),
               [bintogrid |-> Len(tk) + Len(fk) * new_nwave,
                weighted  |-> Range(fk),
                drawn     |-> FALSE])

\* Rainbow.bin_in_wavelength: the resampler on every wavelike array and on every
\* time column of every fluxlike array; the wavelength becomes the grid
bin_in_wavelength(self, R_, dw, wavelength_) ==
    IF wavelength_ = None /\ dw = None /\ R_ = None THEN ReturnSelf(self)
    ELSE
    LET newx == wavelength_
        dx == IF wavelength_ # None THEN None ELSE dw
        res == IF wavelength_ # None \/ dw # None THEN None ELSE R_
        x == wavelength(self)[1]
        bw == GridCentres(x, newx, dx, res)
        bin_of_x == Bins(x, newx, dx, res)
        binned(y, unc) == Resample(bw, bin_of_x, y, unc, "inversevariance")
        has_unc == Has(self.fluxlike, "uncertainty") /\ uncertainty(self) # None
        unc(k, t) == IF ~has_unc \/ k \notin {"flux", "uncertainty"}
                     THEN None
                     ELSE Some(Col(uncertainty(self)[1], t))
        col(k, t) == LET b == binned(Col(self.fluxlike.val[k][1], t), unc(k, t))
                     IN  IF k = "uncertainty" THEN b.bu[1] ELSE b.bv
    IN  Return(
          [wavelike |-> [keys |-> self.wavelike.keys,
                         val  |-> [k \in Range(self.wavelike.keys) |->
                                     IF k = "wavelength" THEN Some(bw)
                                     ELSE Some(binned(self.wavelike.val[k][1], None).bv)]],
           timelike |-> self.timelike,
           fluxlike |-> [keys |-> self.fluxlike.keys,
                         val  |-> [k \in Range(self.fluxlike.keys) |->
                            LET a == self.fluxlike.val[k]
                            IN  IF a = None THEN None
                                ELSE Some(Array2(Len(bw), a[1].nc,
                                        [j \in 1..Len(bw) |->
                                           [t \in 1..a[1].nc |-> col(k, t)[j]]]))]],
           wscale   |-> self.wscale],
          {},
          [bintogrid |-> Len(self.wavelike.keys)
                         + Len(self.fluxlike.keys) * ntime(self),
           weighted  |-> IF has_unc
                         THEN Range(self.fluxlike.keys) \cap {"flux", "uncertainty"}
                         ELSE {},
           drawn     |-> FALSE])

\* the truth np.any finds in an argument: None and 0 are false, and a grid is
\* true (the grids of this model have a non-zero coordinate)
truthy(a) == a # None /\ a[1][1] # 0

truthy_grid(a) == a # None

np_any(truths) == \E i \in DOMAIN truths : truths[i]

\* a call that went through two calls in turn made the resampler calls of both
\* and shares with self what the second shares with what the first shares
Then(first, second) ==
    IF second.err # "" THEN second
    ELSE [second EXCEPT
            !.shares = {o \in second.shares : o \in first.shares},
            !.calls = [bintogrid |-> first.calls.bintogrid + second.calls.bintogrid,
                       weighted  |-> first.calls.weighted \cup second.calls.weighted,
                       drawn     |-> FALSE]]

\* any_is_bool: whether np.any of a list of objects is a bool, which
\* `np.any(...) == False` needs to be True of a list of None (numpy's reduction
\* over objects has returned the last object, None, and a bool, by version)
bin(self, dt, time_, R_, dw, wavelength_, any_is_bool) ==
    IF any_is_bool /\ ~np_any(<<truthy(dt), truthy_grid(time_), truthy(R_), truthy(dw),
                               truthy_grid(wavelength_)>>)
    THEN ReturnSelf(self)
    ELSE
    LET binned_in_time == IF np_any(<<truthy(dt), truthy_grid(time_)>>)
                          THEN bin_in_time(self, dt, time_)
                          ELSE ReturnSelf(self)
    IN  IF binned_in_time.err # "" THEN binned_in_time
        ELSE IF np_any(<<truthy(dw), truthy(R_), truthy_grid(wavelength_)>>)
             THEN Then(binned_in_time,
                       bin_in_wavelength(binned_in_time.new, R_, dw, wavelength_))
             ELSE binned_in_time

imshow(self) ==
    IF self.wscale = None THEN Raise("AttributeError")
    ELSE IF self.wscale[1] \in {"linear", "log"}
         THEN IF ntime(self) = 0 \/ nwave(self) = 0 THEN Raise("ValueError")
              ELSE Return(self, {}, [NoCalls EXCEPT !.drawn = TRUE])
         ELSE Raise("RuntimeError")

\* ------------------------------------------------ actions/inject_noise.py
\* Rainbow._create_copy: a Rainbow of equal contents that shares nothing
create_copy(self) == self

\* np.random.normal(model, uncertainty): model + z * uncertainty, the standard
\* normal draws z taken from {-1, 0, 1} by a seed
draw(w, t, seed) == ((w + t + seed) % 3) - 1

inject_noise(self, signal_to_noise, seed) ==
    LET new == create_copy(self)
        has_model == Has(new.fluxlike, "model")
    IN  IF ~has_model /\ ~Has(self.fluxlike, "flux") THEN Raise("KeyError")
        ELSE
        LET model == IF has_model THEN new.fluxlike.val["model"] ELSE flux(self)
        IN  IF model = None THEN Raise("TypeError")
            ELSE
            LET m == model[1]
                sigma == [w \in 1..m.nr |-> [t \in 1..m.nc |->
                            RDiv(m.d[w][t], I(signal_to_noise))]]
                uncertainty_ == Array2(m.nr, m.nc,
                    [w \in 1..m.nr |-> [t \in 1..m.nc |->
                        RMul(sigma[w][t], sigma[w][t])]])
                flux_ == Array2(m.nr, m.nc,
                    [w \in 1..m.nr |-> [t \in 1..m.nc |->
                        RAdd(m.d[w][t], RMul(I(draw(w, t, seed)), sigma[w][t]))]])
            IN  IF \E w \in 1..m.nr, t \in 1..m.nc : RLess(sigma[w][t], I(0))
                THEN Raise("ValueError")
                ELSE Return(
                       [new EXCEPT !.fluxlike =
                          Put(Put(Put(new.fluxlike, "model", model),
                                  "uncertainty", Some(uncertainty_)),
                              "flux", Some(flux_))],
                       {}, NoCalls)

\* -------------------------------------------------------- actions/trim.py
\* np.sum(np.isnan(self.flux), axis=self.waveaxis) / self.nwave
fraction_of_nans_times(self) ==
    LET f == flux(self)[1]
    IN  [t \in 1..f.nc |->
           RDiv(I(Cardinality({w \in 1..f.nr : isnan(f.d[w][t])})), I(nwave(self)))]

\* np.sum(np.isnan(self.flux), axis=self.timeaxis) / self.ntime
fraction_of_nans_wavelengths(self) ==
    LET f == flux(self)[1]
    IN  [w \in 1..f.nr |->
           RDiv(I(Cardinality({t \in 1..f.nc : isnan(f.d[w][t])})), I(ntime(self)))]

\* variant: a time at the threshold is kept
indices_of_times_to_keep_leq(self, threshold) ==
    LET fraction_of_nans == fraction_of_nans_times(self)
    IN  [t \in DOMAIN fraction_of_nans |-> RLeq(fraction_of_nans[t], threshold)]

indices_of_times_to_keep(self, threshold) ==
    LET fraction_of_nans == fraction_of_nans_times(self)
    IN  [t \in DOMAIN fraction_of_nans |-> RLess(fraction_of_nans[t], threshold)]

indices_of_wavelengths_to_keep(self, threshold) ==
    LET fraction_of_nans == fraction_of_nans_wavelengths(self)
    IN  [w \in DOMAIN fraction_of_nans |-> RLess(fraction_of_nans[w], threshold)]

trim_nan_times(self, threshold) ==
    IF ~Has(self.fluxlike, "flux") THEN Raise("KeyError")
    ELSE Return(getitem(self, AllTrue(nwave(self)),
                        indices_of_times_to_keep(self, threshold)),
                {}, NoCalls)

trim_nan_wavelengths(self, threshold) ==
    IF ~Has(self.fluxlike, "flux") THEN Raise("KeyError")
    ELSE Return(getitem(self, indices_of_wavelengths_to_keep(self, threshold),
                        AllTrue(ntime(self))),
                {}, NoCalls)

\* variant: the wavelengths are left untrimmed
trim_times_only(self, threshold) == trim_nan_times(self, threshold)

trim(self, threshold) ==
    LET trimmed == trim_nan_times(self, threshold)
    IN  IF trimmed.err # "" THEN trimmed
        ELSE trim_nan_wavelengths(trimmed.new, threshold)

\* ---------------------------------------------------------------- writers
\* A string is the sequence of its pieces; the pieces of this model are such
\* that a string ends with (holds) ".rainbow.npy" exactly when its pieces end
\* with (hold) <<".rainbow", ".npy">>.
EndsWith(str, suffix) ==
    /\ Len(str) >= Len(suffix)
    /\ SubSeq(str, Len(str) - Len(suffix) + 1, Len(str)) = suffix

Contains(str, sub) ==
    \E i \in 0..(Len(str) - Len(sub)) : SubSeq(str, i + 1, i + Len(sub)) = sub

rainbow_npy == <<".rainbow", ".npy">>

\* fnmatch.fnmatch(filepath, "*.rainbow.npy")
fnmatch(path, suffix) == EndsWith(path, suffix)

\* the names locals() holds inside guess_writer: its parameters and its imports
guess_writer_locals == {<<"filepath">>, <<"format">>, <<"fnmatch">>, <<"glob">>}

\* f"to_{format}"
to_(fmt) == <<"to_", fmt>>

to_rainbownpy_name == to_("rainbownpy")

\* guess_writer: the writer it returns (None when it falls off the end), or the
\* exception of the failed lookup
guess_writer(path, fmt) ==
    IF fmt # None
    THEN IF to_(fmt[1]) \in guess_writer_locals
         THEN [err |-> "", writer |-> Some(to_(fmt[1]))]
         ELSE [err |-> "KeyError", writer |-> None]
    ELSE IF fnmatch(path, rainbow_npy)
         THEN [err |-> "", writer |-> Some(to_rainbownpy_name)]
         ELSE [err |-> "", writer |-> None]

\* to_rainbownpy: its assertion on the filepath, then np.save
to_rainbownpy(rainbow, path) ==
    IF Contains(path, rainbow_npy) THEN "" ELSE "AssertionError"

\* ------------------------------------------------------------- the inputs
Thresholds == {<<2, 3>>, <<1, 1>>}

\* the flux a caller hands to the constructor: nan where the mask says so
FluxInput(nw, nt, m) ==
    Array2(nw, nt, [w \in 1..nw |-> [t \in 1..nt |->
                      IF m[w][t] THEN NaN ELSE I(w + t)]])

Masks(nw, nt) == [1..nw -> [1..nt -> BOOLEAN]]

NaNs(m) == Cardinality({wt \in (DOMAIN m) \X (1..MaxTime) :
                          wt[2] \in DOMAIN m[wt[1]] /\ m[wt[1]][wt[2]]})

\* no nan, and the first time nan at every wavelength
FewMasks(nw, nt) ==
    {[w \in 1..nw |-> [t \in 1..nt |-> FALSE]],
     [w \in 1..nw |-> [t \in 1..nt |-> t = 1]]}

\* the sigma^2 handed to the constructor, the same at every wavelength
UncertaintyInput(nw, nt, s) ==
    Some(Array2(nw, nt, [w \in 1..nw |-> [t \in 1..nt |-> I(s[t])]]))

Alternating(nt) == [t \in 1..nt |-> IF t % 2 = 1 THEN 1 ELSE 4]

Ones(nt) == [t \in 1..nt |-> 1]

Constructed(nw, nt, f, u) ==
    Rainbow(Some([w \in 1..nw |-> I(w)]), Some([t \in 1..nt |-> I(t - 1)]), Some(f), u)

Pieces == {"a", ".rainbow", ".npy", ".txt"}

RECURSIVE Strings(_)
Strings(n) == IF n = 0 THEN {<<>>}
              ELSE Strings(n - 1)
                   \cup {Append(p, c) : p \in {p \in Strings(n - 1) : Len(p) = n - 1},
                                        c \in Pieces}

Formats == {None, Some("rainbownpy"), Some("fits")}

SignalToNoise == {2}

Seeds == {0, 1}

DtArgs == {None, Some(I(2))}

TimeArgs == {None, Some(<<I(0), I(2)>>)}

\* dt, time, R, dw, wavelength
BinArgs ==
    {<<None, None, None, None, None>>,
     <<Some(I(2)), None, None, None, None>>,
     <<None, Some(<<I(0), I(2)>>), None, Some(I(2)), None>>,
     <<None, None, Some(I(1)), None, None>>,
     <<Some(I(0)), None, None, Some(I(2)), Some(<<I(1), I(3)>>)>>}

\* ------------------------------------------------------------ the machine
Start(r) ==
    /\ out = r
    /\ rb = r
    /\ op = [name |-> "__init__", args |-> <<>>]
    /\ err = ""
    /\ shares = {}
    /\ calls = NoCalls
    /\ nops = 0
    /\ filepath = <<>>
    /\ format = None
    /\ writer = None

Init ==
    \E m \in FewMasks(MaxWave, MaxTime) :
    \E u \in {None, UncertaintyInput(MaxWave, MaxTime, Alternating(MaxTime))} :
        Start(Constructed(MaxWave, MaxTime, FluxInput(MaxWave, MaxTime, m), u))

\* for the trimming actions: every shape and every pattern of up to MaxNaN nan
InitTrim ==
    \E nw \in 1..MaxWave, nt \in 1..MaxTime :
    \E m \in {m \in Masks(nw, nt) : NaNs(m) <= MaxNaN} :
    \E u \in {None, UncertaintyInput(nw, nt, Ones(nt))} :
        Start(Constructed(nw, nt, FluxInput(nw, nt, m), u))

\* what a caller sets on a constructed Rainbow before using it
WScales == {"linear", "log", "sqrt"}

SetUp(name, r) ==
    /\ nops = 0
    /\ r # out
    /\ out' = r
    /\ rb' = r
    /\ op' = [name |-> name, args |-> <<>>]
    /\ UNCHANGED <<err, shares, calls, nops>>
    /\ UNCHANGED writervars

SetWscale == \E v \in WScales :
    SetUp("wscale", [out EXCEPT !.wscale = Some(v)])

SetModel ==
    SetUp("model",
          [out EXCEPT !.fluxlike = Put(@, "model",
              Some(Array2(nwave(out), ntime(out),
                          [w \in 1..nwave(out) |-> [t \in 1..ntime(out) |-> I(t)]])))])

SetAirmass ==
    SetUp("airmass",
          [out EXCEPT !.timelike = Put(@, "airmass",
              Some([t \in 1..ntime(out) |-> I(t + 1)]))])

\* a call on the Rainbow in hand: its result is in hand next, unless it raised
\* (an exception nobody catches ends the program: no call follows it)
Call(name, args, result) ==
    /\ nops < MaxOps
    /\ err = ""
    /\ \E res \in {result} :
        /\ nops' = nops + 1
        /\ op' = [name |-> name, args |-> args]
        /\ rb' = out
        /\ err' = res.err
        /\ out' = IF res.err = "" THEN res.new ELSE out
        /\ shares' = res.shares
        /\ calls' = res.calls
        /\ UNCHANGED writervars

TrimNanTimes == \E threshold \in Thresholds :
    Call("trim_nan_times", <<threshold>>, trim_nan_times(out, threshold))

TrimNanWavelengths == \E threshold \in Thresholds :
    Call("trim_nan_wavelengths", <<threshold>>, trim_nan_wavelengths(out, threshold))

Trim == \E threshold \in Thresholds :
    Call("trim", <<threshold>>, trim(out, threshold))

InjectNoise == \E signal_to_noise \in SignalToNoise, seed \in Seeds :
    Call("inject_noise", <<signal_to_noise>>, inject_noise(out, signal_to_noise, seed))

BinInTime == \E dt \in DtArgs, time_ \in TimeArgs :
    Call("bin_in_time", <<dt, time_>>, bin_in_time(out, dt, time_))

\* (what np.any returns only matters when no argument is true)
Bin == \E a \in BinArgs :
       \E any_is_bool \in IF np_any(<<truthy(a[1]), truthy_grid(a[2]), truthy(a[3]),
                                      truthy(a[4]), truthy_grid(a[5])>>)
                           THEN {TRUE} ELSE BOOLEAN :
    Call("bin", a, bin(out, a[1], a[2], a[3], a[4], a[5], any_is_bool))

Imshow == Call("imshow", <<>>, imshow(out))

Next ==
    \/ SetWscale
    \/ SetModel
    \/ SetAirmass
    \/ TrimNanTimes
    \/ TrimNanWavelengths
    \/ Trim
    \/ InjectNoise
    \/ BinInTime
    \/ Bin
    \/ Imshow

Spec == Init /\ [][Next]_vars

NextTrim ==
    \/ TrimNanTimes
    \/ TrimNanWavelengths
    \/ Trim

SpecTrim == InitTrim /\ [][NextTrim]_vars

\* choosing a writer for a path, and calling the writer chosen
GuessWriter == \E path \in Strings(MaxPath), fmt \in Formats :
    /\ op.name = "__init__"
    /\ \E res \in {guess_writer(path, fmt)} :
        /\ filepath' = path
        /\ format' = fmt
        /\ writer' = res.writer
        /\ err' = res.err
        /\ op' = [name |-> "guess_writer", args |-> <<>>]
        /\ UNCHANGED <<rb, out, shares, calls, nops>>

CallWriter ==
    /\ op.name = "guess_writer"
    /\ err = ""
    /\ writer = Some(to_rainbownpy_name)
    /\ err' = to_rainbownpy(out, filepath)
    /\ op' = [name |-> "to_rainbownpy", args |-> <<>>]
    /\ UNCHANGED <<rb, out, shares, calls, nops, filepath, format, writer>>

NextWriter ==
    \/ GuessWriter
    \/ CallWriter

SpecWriter == Init /\ [][NextWriter]_vars

\* ================================================================== claims
Transforms == {"bin", "bin_in_time", "trim_nan_times", "trim_nan_wavelengths",
               "trim", "inject_noise"}

Returned(name) == op.name = name /\ err = ""

\* bin_in_time was given a grid and returned
BinnedInTime == Returned("bin_in_time") /\ op.args # <<None, None>>

\* the arguments of that call as the resampler gets them
binkw_newx == op.args[2]

binkw_dx == IF op.args[2] # None THEN None ELSE op.args[1]

\* the samples of rb's time that fall in bin j of that call's grid
InBin(j) ==
    LET x == time(rb)[1]
        b == Bins(x, binkw_newx, binkw_dx, None)
    IN  {i \in DOMAIN x : b[i] = j}

RECURSIVE SumOver(_, _)
SumOver(S, f) ==
    IF S = {} THEN I(0)
    ELSE LET i == CHOOSE i \in S : TRUE
         IN  RAdd(f[i], SumOver(S \ {i}, f))

PlainMean(y, S) == RDiv(SumOver(S, y), I(Cardinality(S)))

WeightedMean(y, var, S) ==
    RDiv(SumOver(S, [i \in S |-> RDiv(y[i], var[i])]),
         SumOver(S, [i \in S |-> RDiv(I(1), var[i])]))

PropagatedVariance(var, S) == RDiv(I(1), SumOver(S, [i \in S |-> RDiv(I(1), var[i])]))

HasUncertainty(r) == Has(r.fluxlike, "uncertainty") /\ uncertainty(r) # None

\* C1 (as stated): after bin_in_time of a Rainbow with uncertainties, the
\* uncertainty is binned by the inverse-variance formula and every fluxlike
\* array other than flux and uncertainty is the plain mean of its bin's samples.
C1_Original ==
    (BinnedInTime /\ HasUncertainty(rb)) =>
        \A k \in Range(out.fluxlike.keys) : \A w \in 1..nwave(out), j \in 1..ntime(out) :
            LET got == out.fluxlike.val[k][1].d[w][j]
                y == rb.fluxlike.val[k][1].d[w]
                var == uncertainty(rb)[1].d[w]
            IN  /\ k = "uncertainty" => got = PropagatedVariance(var, InBin(j))
                /\ k \notin {"flux", "uncertainty"} => got = PlainMean(y, InBin(j))

\* C1 (amended): after bin_in_time of a Rainbow with uncertainties, the
\* uncertainty is binned by the inverse-variance formula, and every other
\* fluxlike array (flux, model, ...) is the mean of its bin's samples weighted
\* by 1/sigma^2 of the Rainbow's uncertainty.
C1_Amended ==
    (BinnedInTime /\ HasUncertainty(rb)) =>
        \A k \in Range(out.fluxlike.keys) : \A w \in 1..nwave(out), j \in 1..ntime(out) :
            LET got == out.fluxlike.val[k][1].d[w][j]
                y == rb.fluxlike.val[k][1].d[w]
                var == uncertainty(rb)[1].d[w]
            IN  /\ k = "uncertainty" => got = PropagatedVariance(var, InBin(j))
                /\ k # "uncertainty" => got = WeightedMean(y, var, InBin(j))

\* a model was binned into a bin where the weighted and the plain mean differ
C1_Witness ==
    /\ BinnedInTime /\ HasUncertainty(rb) /\ Has(out.fluxlike, "model")
    /\ \E w \in 1..nwave(out), j \in 1..ntime(out) :
         LET y == rb.fluxlike.val["model"][1].d[w]
             var == uncertainty(rb)[1].d[w]
         IN  /\ ~isnan(WeightedMean(y, var, InBin(j)))
             /\ WeightedMean(y, var, InBin(j)) # PlainMean(y, InBin(j))
             /\ out.fluxlike.val["model"][1].d[w][j] = WeightedMean(y, var, InBin(j))

WellShaped(r) ==
    /\ \A k \in Range(r.wavelike.keys) :
         r.wavelike.val[k] # None => Len(r.wavelike.val[k][1]) = nwave(r)
    /\ \A k \in Range(r.timelike.keys) :
         r.timelike.val[k] # None => Len(r.timelike.val[k][1]) = ntime(r)
    /\ \A k \in Range(r.fluxlike.keys) :
         r.fluxlike.val[k] # None =>
            LET a == r.fluxlike.val[k][1]
            IN  /\ <<a.nr, a.nc>> = <<nwave(r), ntime(r)>>
                /\ Len(a.d) = nwave(r)
                /\ \A w \in 1..Len(a.d) : Len(a.d[w]) = ntime(r)

\* C2: whatever transforms were applied, every fluxlike array of the Rainbow in
\* hand has shape (nwave, ntime), every wavelike array has length nwave and
\* every timelike array has length ntime.
C2_ShapeInvariant == WellShaped(out)

\* a second transform in a row returned a Rainbow of another shape
C2_Witness ==
    /\ nops >= 2 /\ op.name \in Transforms /\ err = ""
    /\ <<nwave(out), ntime(out)>> # <<nwave(rb), ntime(rb)>>
    /\ Has(out.fluxlike, "model") /\ HasUncertainty(out)

NoArguments ==
    \/ op.name = "bin" /\ op.args = <<None, None, None, None, None>>
    \/ op.name = "bin_in_time" /\ op.args = <<None, None>>

\* C3 (as stated, for the calls that were given an argument): bin, bin_in_time,
\* trim and inject_noise return a Rainbow that is not the receiver and shares
\* no mapping and no array with it.
C3_CopyOnWrite ==
    (op.name \in {"bin", "bin_in_time", "trim", "inject_noise"} /\ err = ""
     /\ ~NoArguments)
        => shares = {}

\* C4: bin() and bin_in_time() without arguments return the receiver itself,
\* its contents as they were, and call the resampler not once.
C4_Identity ==
    NoArguments =>
        /\ err = ""
        /\ out = rb
        /\ shares = Objects(rb)
        /\ calls.bintogrid = 0

\* bin() returned on a Rainbow whose wscale was never set and that holds no
\* uncertainty, where binning in time would have raised
C4_Witness ==
    /\ op.name = "bin" /\ NoArguments /\ err = ""
    /\ rb.wscale = None /\ ~HasUncertainty(rb)
    /\ bin_in_time(rb, Some(I(2)), None).err # ""

\* C5 (as stated, for a Rainbow whose wscale is known): bin_in_time with a grid
\* on a Rainbow constructed without uncertainty returns, the flux binned onto
\* the grid and the uncertainty still None.
C5_NoUncertainty ==
    (/\ op.name = "bin_in_time" /\ op.args # <<None, None>>
     /\ Has(rb.fluxlike, "uncertainty") /\ uncertainty(rb) = None
     /\ rb.wscale # None)
        => /\ err = ""
           /\ LET f == flux(out)[1]
              IN  <<f.nr, f.nc>> =
                    <<nwave(rb),
                      Len(GridCentres(time(rb)[1], binkw_newx, binkw_dx, None))>>
           /\ uncertainty(out) = None

\* C7 (as stated): imshow of a Rainbow whose wscale is neither "linear" nor
\* "log" raises RuntimeError and draws nothing, and no call that reads the
\* wscale of such a Rainbow raises anything else.
C7_UnknownScale ==
    (rb.wscale \notin {Some("linear"), Some("log")}) =>
        /\ op.name = "imshow" => (err = "RuntimeError" /\ ~calls.drawn)
        /\ op.name \in {"imshow", "bin_in_time", "bin"} => err \in {"", "RuntimeError"}

\* C8 (as stated): after bin_in_time with a grid, timelike["time"] is the grid
\* and every other timelike array is the binned values of the original.
C8_Timelike ==
    BinnedInTime =>
        /\ out.timelike.val["time"] =
              Some(GridCentres(time(rb)[1], binkw_newx, binkw_dx, None))
        /\ \A k \in Range(out.timelike.keys) \ {"time"} :
              out.timelike.val[k][1] =
                 [j \in 1..ntime(out) |-> PlainMean(rb.timelike.val[k][1], InBin(j))]

\* the nan of the flux of r at time t, at wavelength w
NaNsAtTime(r, t) == Cardinality({w \in 1..flux(r)[1].nr : isnan(flux(r)[1].d[w][t])})

NaNsAtWavelength(r, w) == Cardinality({t \in 1..flux(r)[1].nc : isnan(flux(r)[1].d[w][t])})

\* count / n < threshold and count / n >= threshold; both false of 0 / 0
Below(count, n, threshold) == n > 0 /\ count * threshold[2] < threshold[1] * n

AtOrAbove(count, n, threshold) == n > 0 /\ count * threshold[2] >= threshold[1] * n

TimesBelow(r, threshold) ==
    SelectSeq(Indices(flux(r)[1].nc),
              LAMBDA t : Below(NaNsAtTime(r, t), nwave(r), threshold))

\* C6: trim_nan_times(threshold) keeps, in their order, exactly the times whose
\* fraction of nan flux is below the threshold, and every wavelength; with
\* threshold 1 and one time that is nan at every wavelength, ntime drops by 1.
C6_TrimNanTimes ==
    Returned("trim_nan_times") =>
        LET threshold == op.args[1]
            kept == TimesBelow(rb, threshold)
            all_nan == {t \in 1..ntime(rb) : NaNsAtTime(rb, t) = nwave(rb)}
        IN  /\ time(out)[1] = [n \in 1..Len(kept) |-> time(rb)[1][kept[n]]]
            /\ flux(out)[1].d = [w \in 1..nwave(rb) |->
                                   [n \in 1..Len(kept) |-> flux(rb)[1].d[w][kept[n]]]]
            /\ wavelength(out) = wavelength(rb)
            /\ threshold = I(1) =>
                  /\ ntime(out) = ntime(rb) - Cardinality(all_nan)
                  /\ Cardinality(all_nan) = 1 =>
                        ntime(out) = ntime(rb) - 1 /\ nwave(out) = nwave(rb)

\* threshold 1 removed the one time that was nan at every wavelength and kept
\* a time that was nan at some
C6_Witness ==
    /\ Returned("trim_nan_times") /\ op.args[1] = I(1)
    /\ Cardinality({t \in 1..ntime(rb) : NaNsAtTime(rb, t) = nwave(rb)}) = 1
    /\ ntime(out) = ntime(rb) - 1
    /\ nwave(out) > 1
    /\ \E t \in 1..ntime(out) : NaNsAtTime(out, t) > 0

NoBadTime(r, threshold) ==
    \A t \in 1..ntime(r) : ~AtOrAbove(NaNsAtTime(r, t), nwave(r), threshold)

NoBadWavelength(r, threshold) ==
    \A w \in 1..nwave(r) : ~AtOrAbove(NaNsAtWavelength(r, w), ntime(r), threshold)

\* C9 (as stated): the Rainbow trim(threshold) returns holds no time and no
\* wavelength whose fraction of nan flux is at or above the threshold.
C9_Original ==
    Returned("trim") =>
        NoBadTime(out, op.args[1]) /\ NoBadWavelength(out, op.args[1])

\* C9 (amended): the Rainbow trim(threshold) returns holds no wavelength whose
\* fraction of nan flux is at or above the threshold; with threshold 1 it holds
\* no such time either, and trimming it again removes nothing.
C9_Amended ==
    Returned("trim") =>
        /\ NoBadWavelength(out, op.args[1])
        /\ op.args[1] = I(1) =>
              /\ NoBadTime(out, op.args[1])
              /\ trim(out, op.args[1]).new = out

\* trim with threshold 1 removed a time and a wavelength and left some flux
C9_Witness ==
    /\ Returned("trim") /\ op.args[1] = I(1)
    /\ ntime(out) < ntime(rb) /\ nwave(out) < nwave(rb)
    /\ ntime(out) > 0 /\ nwave(out) > 0

\* C10 (as stated): with a format, guess_writer returns the writer to_<format>;
\* without one it returns to_rainbownpy exactly for a filepath that ends in
\* ".rainbow.npy"; and to_rainbownpy accepts every filepath it is returned for.
C10_Dispatch ==
    op.name = "guess_writer" =>
        /\ format # None => (err = "" /\ writer = Some(to_(format[1])))
        /\ format = None =>
              /\ err = ""
              /\ writer = Some(to_rainbownpy_name) <=> EndsWith(filepath, rainbow_npy)
        /\ writer = Some(to_rainbownpy_name) => to_rainbownpy(out, filepath) = ""

====
